---- MODULE Spec2Model ----
(***************************************************************************)
(* Model of SvgGenerationService (svg-backend): the streamed generation    *)
(* pipeline createStream, the synchronous create, and the credit balance   *)
(* they share in the durable store.                                        *)
(*                                                                         *)
(* Every request of the model belongs to the same user.  A request is an   *)
(* asynchronous task: the code between two awaits runs without             *)
(* interruption, so each action below covers one awaited operation         *)
(* together with the synchronous code that follows it up to the next       *)
(* await.  The `close`/`error` handlers of the response run between such   *)
(* actions.                                                                *)
(***************************************************************************)
EXTENDS Integers, Sequences, FiniteSets, TLC

\* ---------------------------------------------------------------- bounds
NumReq == 2          \* concurrent createStream requests of the user
NumCreate == 2       \* concurrent create calls of the user
MaxCredits == 2      \* largest initial remainingCredits
MaxChunks == 2       \* fragments the provider emits per request at most
MaxTokens == 4       \* longest argument of cleanSvgContent, in tokens
NumEditors == 2      \* clients that call updateSvgVersion on the Version
MaxEdits == 12       \* edits stored in the Version's history at most
MaxRaceEdits == 3    \* the same, when the calls of the clients overlap
MaxRatioLen == 6     \* longest aspectRatio string, in characters
MaxBeats == 2        \* keepalive comments the timer of a request writes at most
NumGens == 3         \* stored SvgGeneration rows the listings read
MaxCreatedAt == 2    \* latest creation time of a stored SvgGeneration row
MaxPage == 2         \* largest page a listing is asked for
MaxPageSize == 2     \* largest pageSize a listing is asked for
MaxUpdates == 2      \* updatePublicStatus calls that reach the store at most
NumTokens == 2       \* JWT tokens in circulation
MaxTime == 3         \* seconds the clock of the token blacklist runs for

Reqs == 1..NumReq
Creates == 1..NumCreate

VARIABLES
    \* durable store
    userExists,      \* the user row exists
    remainingCredits, \* user.remainingCredits
    initialCredits,  \* remainingCredits before any request (never changes)
    nextGenId,       \* autoincrement of svg_generations.id
    generations,     \* ids of the committed SvgGeneration rows
    versions,        \* committed SvgVersion rows
    rowLock,         \* create call whose open transaction locks the user row, 0 if none
    \* createStream, per request
    pc,              \* the awaited operation the request is suspended on
    hasEnded,        \* the local flag hasEnded
    frames,          \* frames written with reply.raw.write, in order
    ends,            \* number of reply.raw.end() calls
    rejected,        \* an exception escaped createStream
    closed,          \* "open", or when reply.raw emitted `close`/`error`: "unheard"
                     \* (no handler registered yet), "early" (the provider stream
                     \* had not ended) or "late"
    handlers,        \* the close/error handlers are registered
    gen,             \* generation.id, 0 before the row is created
    processedSvgContent, \* the accumulator, as the sequence of fragments appended to it
    emitted,         \* fragments the provider has produced so far
    lastError,       \* the local lastError is set
    provFailed,      \* the provider call failed (thrown or reported to onError)
    charged,         \* the request's user.update succeeded
    storageFailed,   \* a storage call of the request failed
    isThinking,      \* data.isThinking, "base" or "thinking" (never changes)
    modelNames,      \* modelNames of the request's SvgGeneration row, <<>> before the insert
    currentModel,    \* the local currentModel, "" before it is set
    attempts,        \* streamText calls the request has started
    keepAlive,       \* the interval keepAliveInterval is set and not cleared
    beats,           \* keepalive comments written to reply.raw
    writeFaults,     \* reply.raw.write may throw in this run (never changes)
    fragSet,         \* fragments the provider may emit in this run (never changes)
    \* create, per call
    cpc,             \* the awaited operation the call is suspended on
    cgen,            \* id of the generation the call inserted, 0 if none
    tx,              \* statements done inside the call's open transaction
    \* updateSvgVersion, the edited Version row and per call
    existingVersion, \* the stored SvgVersion row: svgContent, svgModifyList, lastEditedAt
    epc,             \* the awaited operation the call is suspended on
    modifyList,      \* the local modifyList the call is about to store
    cleanedSvgContent, \* the local cleanedSvgContent of the call
    clock,           \* the time, as far as stored timestamps tell it
    allEdits,        \* every record ever stored in the row's history, newest first
    serialEdits,     \* the clients send one updateSvgVersion at a time (never changes)
    \* cleanSvgContent called on its own
    svgContent,      \* the argument
    cleaned,         \* the value returned
    cleanPc,         \* "call" before the call, "returned" after it
    \* the height resolution of create and createStream on its own
    aspectRatio,     \* data.aspectRatio, a sequence of characters
    height,          \* the local height once resolved
    heightPc,        \* "call" before the resolution, "resolved" after it,
                     \* "prepared" once configuration, prompts and placeholder are built
    type,            \* data.type, "custom" or anything else (never changes)
    configuration,   \* width and height of the stored SvgGeneration.configuration
    prompts,         \* fullPrompt and systemPrompt returned by getPrompts
    svgPlaceholder,  \* the viewBox of create's placeholder document
    \* the listings and updatePublicStatus
    svgGenerations,  \* the stored SvgGeneration rows, by id
    svgVersions,     \* the stored SvgVersion rows of these generations
    stamp,           \* the time, as far as updatedAt tells it
    lpc,             \* the awaited operation the listing is suspended on
    query,           \* the listing called, with its page and pageSize
    total,           \* the local total of the listing
    items,           \* the items the listing returned
    upc,             \* the awaited operation updatePublicStatus is suspended on
    target,          \* the id and isPublic updatePublicStatus was called with
    outcome,         \* the id of the last updatePublicStatus call and how it ended
    \* TokenBlacklistService, AuthService.logout and JwtGuard
    tokenExp,        \* the exp claim of each token, 0 if it has none (never changes)
    time,            \* Math.floor(Date.now() / 1000)
    blacklist,       \* the Map blacklist: token -> expiry
    logouts,         \* what the last logout(token) returned, per token
    gpc,             \* the awaited operation canActivate is suspended on
    guarded,         \* the request canActivate was last called for
    verdict          \* how that canActivate call ended, "" while it runs

dbVars == <<userExists, remainingCredits, initialCredits, nextGenId, generations, versions, rowLock>>
streamVars == <<pc, hasEnded, frames, ends, rejected, closed, handlers, gen, processedSvgContent,
                emitted, lastError, provFailed, charged, storageFailed, isThinking, modelNames,
                currentModel, attempts, keepAlive, beats>>
modelVars == <<isThinking, modelNames, currentModel, attempts>>
timerVars == <<keepAlive, beats>>
createVars == <<cpc, cgen, tx>>
envVars == <<writeFaults, fragSet>>
editVars == <<existingVersion, epc, modifyList, cleanedSvgContent, clock, allEdits, serialEdits>>
cleanVars == <<svgContent, cleaned, cleanPc>>
aspectVars == <<aspectRatio, height, heightPc, type, configuration, prompts, svgPlaceholder>>
listVars == <<svgGenerations, svgVersions, stamp, lpc, query, total, items, upc, target, outcome>>
authVars == <<tokenExp, time, blacklist, logouts, gpc, guarded, verdict>>
sideVars == <<listVars, authVars>>
otherVars == <<editVars, cleanVars, aspectVars, sideVars>>
vars == <<dbVars, streamVars, createVars, envVars, otherVars>>

\* ------------------------------------------------------------- the channel
Frame(st, ch) == [status |-> st, chunk |-> ch]
StartedFrame == Frame("started", "")
CompletedFrame == Frame("completed", "")
ErrorFrame == Frame("error", "")
StreamingFrame(textPart) == Frame("streaming", textPart)

\* The part of a request's state that the error handling touches.
Chan(r) == [frames |-> frames[r], ends |-> ends[r], hasEnded |-> hasEnded[r],
            rejected |-> rejected[r]]

\* reply.raw.write(frame) that returns.
Write(s, f) == [s EXCEPT !.frames = Append(@, f)]

\* reply.raw.end(); hasEnded = true;
End(s) == [s EXCEPT !.ends = @ + 1, !.hasEnded = TRUE]

\* The finally block: a last-resort error frame and end() when neither the
\* flag nor writableEnded says the response is over.  w: the write returns.
Finally(s, w) ==
    IF ~s.hasEnded /\ s.ends = 0
    THEN IF w THEN [Write(s, ErrorFrame) EXCEPT !.ends = @ + 1] ELSE s
    ELSE s

\* The outer catch, then the finally block.  A write that throws inside the
\* catch leaves createStream as a rejection once finally has run.
OuterCatch(s, w1, w2) ==
    IF s.hasEnded THEN Finally(s, w2)
    ELSE IF w1 THEN Finally(End(Write(s, ErrorFrame)), w2)
    ELSE Finally([s EXCEPT !.rejected = TRUE], w2)

\* The inner catch (API error), then the finally block.  A write that throws
\* inside it is caught by the outer catch.
InnerCatch(s, w1, w2, w3) ==
    IF s.hasEnded THEN Finally(s, w3)
    ELSE IF w1 THEN Finally(End(Write(s, ErrorFrame)), w3)
    ELSE OuterCatch(s, w2, w3)

\* catch (streamError): an error frame when the flag is clear, then rethrow.
StreamCatch(s, w0, w1, w2, w3) ==
    IF ~s.hasEnded /\ w0 THEN InnerCatch(Write(s, ErrorFrame), w1, w2, w3)
    ELSE InnerCatch(s, w1, w2, w3)

\* catch around the write of a streaming frame: error frame and end() when
\* the flag is clear (a failure of these is swallowed), then rethrow.
ChunkCatch(s, wa, w0, w1, w2, w3) ==
    IF ~s.hasEnded /\ wa THEN StreamCatch(End(Write(s, ErrorFrame)), w0, w1, w2, w3)
    ELSE StreamCatch(s, w0, w1, w2, w3)

\* catch around the write of the completed frame: end() when the flag is
\* clear, then rethrow.
CompleteCatch(s, w1, w2, w3) ==
    IF ~s.hasEnded THEN InnerCatch(End(s), w1, w2, w3)
    ELSE InnerCatch(s, w1, w2, w3)

\* Outcomes of the writes of one synchronous stretch of code.
AllWritten == [i \in 1..5 |-> TRUE]
Oracle == IF writeFaults THEN [1..5 -> BOOLEAN] ELSE {AllWritten}

\* What the write of a streaming frame does: it returns true, it returns
\* false (the buffer is full), or it throws.
WriteResults == IF writeFaults THEN {"ok", "full", "throw"} ELSE {"ok", "full"}

SetChan(r, s) ==
    /\ frames' = [frames EXCEPT ![r] = s.frames]
    /\ ends' = [ends EXCEPT ![r] = s.ends]
    /\ hasEnded' = [hasEnded EXCEPT ![r] = s.hasEnded]
    /\ rejected' = [rejected EXCEPT ![r] = s.rejected]

\* ------------------------------------------------------------ the sanitizer
\* A text is a sequence of tokens.  A token is a piece of text that the
\* regular expressions of cleanSvgContent take or leave as a whole; what
\* they look for in it is given by the predicates below.
OpenTag == "<svg>"                \* an opening root tag without xmlns
OpenTagNs == "<svg xmlns>"        \* an opening root tag with the xmlns attribute
CutTag == "<svg width="           \* an opening root tag cut before its >
CloseTag == "</svg>"
LeafElement == "<rect/>"
Fence == "(fence)svg"             \* a code-fence marker (three backquotes), with or
                                  \* without svg, xml or html after it
Blank == " "                      \* white space
Garbage == "text"                 \* text without markup
WrapperOpen == "<svg xmlns viewBox>"
DefaultOpen == "<svg xmlns viewBox width height>"
DefaultRect == "<rect fill/>"
DefaultHint == "<text>retry</text>"
EmptyMessage == "<text>no content</text>"
FailedMessage == "<text>parse failed</text>"
PlaceholderText == "<text>generating</text>"

InputTokens == {OpenTag, OpenTagNs, CutTag, CloseTag, LeafElement, Fence, Blank, Garbage}

\* The texts of at most n tokens of S.
BoundedSeq(S, n) == UNION {[1..k -> S] : k \in 0..n}

\* The token contains "<svg".
HasOpen(t) == t \in {OpenTag, OpenTagNs, CutTag, WrapperOpen, DefaultOpen}

\* The token contains ">".
HasGt(t) == t \in {OpenTag, OpenTagNs, WrapperOpen, DefaultOpen, CloseTag, LeafElement,
                   DefaultRect, DefaultHint, EmptyMessage, FailedMessage, PlaceholderText}

\* The token contains xmlns="http://www.w3.org/2000/svg".
HasXmlns(t) == t \in {OpenTagNs, WrapperOpen, DefaultOpen}

\* The token matches /<(circle|rect|path|g|text|line|polyline|polygon|ellipse)[\s\S]*?>/i.
IsLeaf(t) == t \in {LeafElement, DefaultRect, DefaultHint, EmptyMessage, FailedMessage,
                    PlaceholderText}

\* Positions of the occurrences of "<svg" and of "</svg>" in a text.
Opens(s) == {i \in 1..Len(s) : HasOpen(s[i])}
Closes(s) == {i \in 1..Len(s) : s[i] = CloseTag}

\* The least element of a non-empty set of positions, 0 for the empty set.
First(idx) == IF idx = {} THEN 0 ELSE CHOOSE i \in idx : \A j \in idx : i <= j

\* Where the match of /<svg[^>]*>/ that starts at position i ends: at the
\* first ">" from there on; 0 when there is none.
TagEnd(s, i) ==
    IF s[i] # CutTag THEN i ELSE First({k \in (i + 1)..Len(s) : HasGt(s[k])})

\* String.prototype.trim
RECURSIVE TrimStart(_)
TrimStart(s) == IF s # <<>> /\ Head(s) = Blank THEN TrimStart(Tail(s)) ELSE s
RECURSIVE TrimEnd(_)
TrimEnd(s) ==
    IF s # <<>> /\ s[Len(s)] = Blank THEN TrimEnd(SubSeq(s, 1, Len(s) - 1)) ELSE s
Trim(s) == TrimEnd(TrimStart(s))

\* A replace that leaves the fence markers in the text.
KeepFences(s, afterFence) == s

\* The replace of fence markers (optional svg, xml or html, then \s*) by
\* the empty string, with flag g: every fence marker goes, with the
\* white space that follows it.  (The second replace, of a fence at the end,
\* then finds none.)
RECURSIVE StripFences(_, _)
StripFences(s, afterFence) ==
    IF s = <<>> THEN <<>>
    ELSE IF Head(s) = Fence THEN StripFences(Tail(s), TRUE)
    ELSE IF afterFence /\ Head(s) = Blank THEN StripFences(Tail(s), TRUE)
    ELSE <<Head(s)>> \o StripFences(Tail(s), FALSE)

\* A check that also asks for the xmlns attribute in the text.
IsValidWithXmlns(s) ==
    /\ \E i \in Opens(s) : TagEnd(s, i) # 0 /\ \E j \in Closes(s) : j > TagEnd(s, i)
    /\ Cardinality(Opens(s)) = 1
    /\ Cardinality(Closes(s)) = 1
    /\ \E k \in 1..Len(s) : HasXmlns(s[k])

\* isValidFullSvg: /<svg[^>]*>[\s\S]*<\/svg>/i matches, and the text has
\* exactly one "<svg" and exactly one "</svg>".  The xmlns attribute it adds
\* when missing goes to a local copy that only these counts look at.
IsValidFullSvg(s) ==
    /\ \E i \in Opens(s) :
          /\ TagEnd(s, i) # 0
          /\ \E j \in Closes(s) : j > TagEnd(s, i)
    /\ Cardinality(Opens(s)) = 1
    /\ Cardinality(Closes(s)) = 1

\* A placeholder that carries the parse failed message whatever it is given.
GetDefaultSvgOneMessage(message) ==
    <<DefaultOpen, DefaultRect, FailedMessage, DefaultHint, CloseTag>>

\* getDefaultSvg(message)
GetDefaultSvg(message) == <<DefaultOpen, DefaultRect, message, DefaultHint, CloseTag>>

\* cleanSvgContent
CleanSvgContent(text) ==
    LET stripped == Trim(StripFences(text, FALSE))
        i == First(Opens(stripped))
        j == IF i = 0 THEN 0 ELSE First({k \in Closes(stripped) : k > i})
        fullMatch == SubSeq(stripped, i, j)
        svgFragment == SubSeq(stripped, i, Len(stripped))
        wrappedSvg == <<WrapperOpen>> \o stripped \o <<CloseTag>>
        wrapLeaves ==
            IF (\E k \in 1..Len(stripped) : IsLeaf(stripped[k])) /\ IsValidFullSvg(wrappedSvg)
            THEN wrappedSvg
            ELSE GetDefaultSvg(FailedMessage)
    IN  IF Trim(text) = <<>> THEN GetDefaultSvg(EmptyMessage)
        ELSE IF IsValidFullSvg(text) THEN text
        ELSE IF j # 0 /\ IsValidFullSvg(fullMatch) THEN fullMatch
        ELSE IF i # 0 /\ TagEnd(stripped, i) # 0
        THEN IF j = 0 THEN svgFragment \o <<CloseTag>>
             ELSE IF IsValidFullSvg(fullMatch) THEN fullMatch
             ELSE wrapLeaves
        ELSE wrapLeaves

\* Text fragments of the provider: the empty one, a blank one, an opening
\* and a closing root tag.
Fragments == {"", Blank, OpenTag, CloseTag}

\* svgPlaceholder of create
PlaceholderSvg == <<DefaultOpen, PlaceholderText, CloseTag>>

\* An entry of svgModifyList; every request belongs to the same user.
ModifyRecord(content, timestamp) ==
    [content |-> content, timestamp |-> timestamp, editedBy |-> "user"]

\* ------------------------------------------------------------ createStream
\* A row of Version 1 whose history holds the sanitized text.
FinalVersionCleanHistory(r) ==
    [generationId |-> gen[r], versionNumber |-> 1,
     svgContent |-> CleanSvgContent(processedSvgContent[r]),
     svgModifyList |-> <<ModifyRecord(CleanSvgContent(processedSvgContent[r]), 0)>>]

\* The row of Version 1 that createStream inserts when the stream is over.
FinalVersion(r) ==
    [generationId |-> gen[r], versionNumber |-> 1,
     svgContent |-> CleanSvgContent(processedSvgContent[r]),
     svgModifyList |-> <<ModifyRecord(processedSvgContent[r], 0)>>]

\* The placeholder row of Version 1 that create inserts.
PlaceholderVersion(g) ==
    [generationId |-> g, versionNumber |-> 1, svgContent |-> PlaceholderSvg, svgModifyList |-> <<>>]

\* @@unique([generationId, versionNumber])
VersionExists(g, n) == \E v \in versions : v.generationId = g /\ v.versionNumber = n

\* !textPart || textPart.trim() === ""
IsBlank(textPart) == textPart \in {"", Blank}

Finish(r, s) == SetChan(r, s) /\ pc' = [pc EXCEPT ![r] = "done"]

\* A pre-check that lets a balance of 0 pass.
HasCreditOffByOne(balance) == balance >= 0

\* The credit pre-check: the negation of user.remainingCredits <= 0.
HasCredit(balance) == ~(balance <= 0)

\* findUnique of the user and the credit pre-check; on success the response
\* head is written, the keepalive interval is set and the close/error
\* handlers are registered.
Authorize(r) ==
    /\ pc[r] = "findUser"
    /\ \E ok \in BOOLEAN, w \in Oracle :
         /\ storageFailed' = [storageFailed EXCEPT ![r] = ~ok]
         /\ IF ok /\ userExists /\ HasCredit(remainingCredits)
            THEN /\ pc' = [pc EXCEPT ![r] = "createGen"]
                 /\ keepAlive' = [keepAlive EXCEPT ![r] = TRUE]
                 /\ handlers' = [handlers EXCEPT ![r] = TRUE]
                 /\ UNCHANGED <<frames, ends, hasEnded, rejected>>
            ELSE /\ Finish(r, OuterCatch(Chan(r), w[1], w[2]))
                 /\ UNCHANGED <<handlers, keepAlive>>
    /\ UNCHANGED <<dbVars, createVars, envVars, otherVars, modelVars, beats, closed, gen, processedSvgContent, emitted, lastError,
                   provFailed, charged>>

\* if (!success): an error frame and end() when the flag is clear, then return.
NoModel(s, w2, w3, w4, w5) ==
    IF s.hasEnded THEN Finally(s, w5)
    ELSE IF w2 THEN Finally(End(Write(s, ErrorFrame)), w5)
    ELSE InnerCatch(s, w3, w4, w5)

\* The identifier stored in modelNames of the SvgGeneration row.
StoredModel(flag) ==
    IF flag = "thinking" THEN "claude-3-7-sonnet-thinking-all" ELSE "claude-3-7-sonnet-all"

\* const currentModel: the identifier handed to customOpenAI for streamText.
CurrentModel(flag) ==
    IF flag = "thinking" THEN "claude-3-7-sonnet-thinking-all" ELSE "deepseek-chat"

\* A provider call that counts for three: the primary model and two more.
StartCallWithRetries(n) == n + 3

\* The number of streamText calls after one more: the call is outside any
\* loop and the catch around it starts no other.
StartCall(n) == n + 1

\* A request that never writes the started frame.
SkipStarted(s) == s

\* reply.raw.write(startEvent) that returns.
WriteStarted(s) == Write(s, StartedFrame)

\* svgGeneration.create, the started frame, the prompt and the streamText call.
CreateGeneration(r) ==
    /\ pc[r] = "createGen"
    /\ \E ok \in BOOLEAN, callOk \in BOOLEAN, w \in Oracle :
         IF ~ok
         THEN /\ Finish(r, OuterCatch(Chan(r), w[1], w[2]))
              /\ storageFailed' = [storageFailed EXCEPT ![r] = TRUE]
              /\ UNCHANGED <<nextGenId, generations, gen, lastError, provFailed, modelNames,
                             currentModel, attempts>>
         ELSE /\ nextGenId' = nextGenId + 1
              /\ UNCHANGED storageFailed
              /\ generations' = generations \cup {nextGenId}
              /\ gen' = [gen EXCEPT ![r] = nextGenId]
              /\ modelNames' = [modelNames EXCEPT ![r] = <<StoredModel(isThinking[r])>>]
              /\ IF ~w[1]
                 THEN \* the write of the started frame throws
                      /\ Finish(r, OuterCatch([Chan(r) EXCEPT !.hasEnded = TRUE], w[2], w[3]))
                      /\ UNCHANGED <<lastError, provFailed, currentModel, attempts>>
                 ELSE /\ currentModel' = [currentModel EXCEPT ![r] = CurrentModel(isThinking[r])]
                      /\ attempts' = [attempts EXCEPT ![r] = StartCall(@)]
                      /\ IF ~callOk
                         THEN \* streamText throws
                              /\ Finish(r, NoModel(WriteStarted(Chan(r)), w[2], w[3], w[4], w[5]))
                              /\ lastError' = [lastError EXCEPT ![r] = TRUE]
                              /\ provFailed' = [provFailed EXCEPT ![r] = TRUE]
                         ELSE /\ SetChan(r, WriteStarted(Chan(r)))
                              /\ pc' = [pc EXCEPT ![r] = "awaitChunk"]
                              /\ UNCHANGED <<lastError, provFailed>>
    /\ UNCHANGED <<userExists, remainingCredits, initialCredits, versions, rowLock, createVars, envVars, otherVars, isThinking, timerVars,
                   closed, handlers, processedSvgContent, emitted, charged>>

\* The code after the loop up to the await of svgVersion.create: the
\* completed frame.
Complete(r, w) ==
    IF w[1]
    THEN SetChan(r, Write(Chan(r), CompletedFrame)) /\ pc' = [pc EXCEPT ![r] = "createVersion"]
    ELSE Finish(r, CompleteCatch(Chan(r), w[2], w[3], w[4]))

\* A forwarding step that writes the frame of a fragment twice.
ForwardChunkTwice(s, textPart) ==
    Write(Write(s, StreamingFrame(textPart)), StreamingFrame(textPart))

\* reply.raw.write of the streaming frame of one fragment.
ForwardChunk(s, textPart) == Write(s, StreamingFrame(textPart))

\* One iteration of for await (const textPart of streamResult.textStream).
ProviderChunk(r) ==
    /\ pc[r] = "awaitChunk"
    /\ Len(emitted[r]) < MaxChunks
    /\ \E textPart \in fragSet, res \in WriteResults, w \in Oracle :
         /\ emitted' = [emitted EXCEPT ![r] = Append(@, textPart)]
         /\ IF hasEnded[r]
            THEN Complete(r, w) /\ UNCHANGED processedSvgContent
            ELSE IF IsBlank(textPart)
            THEN UNCHANGED <<pc, processedSvgContent, frames, ends, hasEnded, rejected>>
            ELSE /\ processedSvgContent' = [processedSvgContent EXCEPT ![r] = Append(@, textPart)]
                 /\ CASE res = "throw" ->
                           Finish(r, ChunkCatch(Chan(r), w[1], w[2], w[3], w[4], w[5]))
                      [] res = "ok" ->
                           /\ SetChan(r, ForwardChunk(Chan(r), textPart))
                           /\ UNCHANGED pc
                      [] res = "full" ->
                           /\ SetChan(r, ForwardChunk(Chan(r), textPart))
                           /\ pc' = [pc EXCEPT ![r] = "awaitDrain"]
    /\ UNCHANGED <<dbVars, createVars, envVars, otherVars, modelVars, timerVars, closed, handlers, gen, lastError, provFailed,
                   charged, storageFailed>>

\* The text stream ends.
ProviderEnd(r) ==
    /\ pc[r] = "awaitChunk"
    /\ \E w \in Oracle : Complete(r, w)
    /\ UNCHANGED <<dbVars, createVars, envVars, otherVars, modelVars, timerVars, closed, handlers, gen, processedSvgContent, emitted, lastError,
                   provFailed, charged, storageFailed>>

\* The provider call fails (error, deadline, network): the text stream
\* throws, or the error is handed to onError and the text stream ends.
ProviderFail(r) ==
    /\ pc[r] = "awaitChunk"
    /\ provFailed' = [provFailed EXCEPT ![r] = TRUE]
    /\ \E thrown \in BOOLEAN, w \in Oracle :
         IF thrown
         THEN /\ Finish(r, StreamCatch(Chan(r), w[1], w[2], w[3], w[4]))
              /\ UNCHANGED lastError
         ELSE /\ lastError' = [lastError EXCEPT ![r] = TRUE]
              /\ Complete(r, w)
    /\ UNCHANGED <<dbVars, createVars, envVars, otherVars, modelVars, timerVars, closed, handlers, gen, processedSvgContent, emitted, charged,
                   storageFailed>>

\* The response emits `drain`; a response whose connection is gone never does.
Drain(r) ==
    /\ pc[r] = "awaitDrain"
    /\ closed[r] = "open"
    /\ pc' = [pc EXCEPT ![r] = "awaitChunk"]
    /\ UNCHANGED <<dbVars, createVars, envVars, otherVars, modelVars, timerVars, hasEnded, frames, ends, rejected, closed,
                   handlers, gen, processedSvgContent, emitted, lastError, provFailed, charged,
                   storageFailed>>

\* A svgVersion.create that resolves without a row being stored.
StoreNothing(r) == versions

\* The svg_versions rows once svgVersion.create of the request has succeeded.
StoreFinalVersion(r) == versions \cup {FinalVersion(r)}

\* svgVersion.create of Version 1 with the final content, then end().
PersistVersion(r) ==
    /\ pc[r] = "createVersion"
    /\ \E ok \in BOOLEAN, w \in Oracle :
         IF ok /\ ~VersionExists(gen[r], 1)
         THEN /\ versions' = StoreFinalVersion(r)
              /\ SetChan(r, IF hasEnded[r] THEN Chan(r) ELSE End(Chan(r)))
              /\ pc' = [pc EXCEPT ![r] = "decrement"]
              /\ UNCHANGED storageFailed
         ELSE /\ Finish(r, InnerCatch(Chan(r), w[1], w[2], w[3]))
              /\ storageFailed' = [storageFailed EXCEPT ![r] = TRUE]
              /\ UNCHANGED versions
    /\ UNCHANGED <<userExists, remainingCredits, initialCredits, nextGenId, generations, rowLock,
                   envVars, otherVars, modelVars, timerVars, createVars, closed, handlers, gen, processedSvgContent, emitted, lastError,
                   provFailed, charged>>

\* An update that takes two credits.
DecrementTwice(balance) == balance - 2

\* The new balance that user.update({remainingCredits: {decrement: 1}}) stores.
Decrement(balance) == balance - 1

\* user.update of the balance, the last statement of the try block.
DecrementCredit(r) ==
    /\ pc[r] = "decrement"
    /\ \E ok \in BOOLEAN, w \in Oracle :
         IF ok
         THEN /\ rowLock = 0
              /\ remainingCredits' = Decrement(remainingCredits)
              /\ charged' = [charged EXCEPT ![r] = TRUE]
              /\ Finish(r, Finally(Chan(r), w[1]))
              /\ UNCHANGED storageFailed
         ELSE /\ Finish(r, InnerCatch(Chan(r), w[1], w[2], w[3]))
              /\ storageFailed' = [storageFailed EXCEPT ![r] = TRUE]
              /\ UNCHANGED <<remainingCredits, charged>>
    /\ UNCHANGED <<userExists, initialCredits, nextGenId, generations, versions, rowLock,
                   envVars, otherVars, modelVars, timerVars, createVars, closed, handlers, gen, processedSvgContent, emitted, lastError, provFailed>>

\* reply.raw emits `close` or `error` before the request has ended it: the
\* client went away.  The handlers, once registered, clear the keepalive
\* interval and set the flag.
ChannelClosed(r) ==
    /\ pc[r] \notin {"unused", "done"}
    /\ closed[r] = "open"
    /\ ends[r] = 0
    /\ closed' = [closed EXCEPT ![r] =
                     IF ~handlers[r] THEN "unheard"
                     ELSE IF pc[r] \in {"createGen", "awaitChunk", "awaitDrain"} THEN "early"
                     ELSE "late"]
    /\ hasEnded' = [hasEnded EXCEPT ![r] = hasEnded[r] \/ handlers[r]]
    /\ keepAlive' = [keepAlive EXCEPT ![r] = keepAlive[r] /\ ~handlers[r]]
    /\ UNCHANGED <<dbVars, createVars, envVars, otherVars, modelVars, beats, pc, frames, ends, rejected, handlers, gen, processedSvgContent,
                   emitted, lastError, provFailed, charged, storageFailed>>

StreamStep(r) ==
    \/ Authorize(r)
    \/ CreateGeneration(r)
    \/ ProviderChunk(r)
    \/ ProviderEnd(r)
    \/ ProviderFail(r)
    \/ Drain(r)
    \/ PersistVersion(r)
    \/ DecrementCredit(r)
    \/ ChannelClosed(r)

\* One run of the callback of keepAliveInterval: a keepalive comment while
\* neither the flag nor writableEnded says the response is over (a write that
\* throws is logged), clearInterval otherwise.  Nothing but this callback and
\* the close/error handlers reads or changes the interval.
KeepAlive(r) ==
    /\ keepAlive[r]
    /\ IF ~hasEnded[r] /\ ends[r] = 0
       THEN /\ beats[r] < MaxBeats
            /\ \E res \in WriteResults :
                 beats' = [beats EXCEPT ![r] = IF res = "throw" THEN @ ELSE @ + 1]
            /\ UNCHANGED keepAlive
       ELSE /\ keepAlive' = [keepAlive EXCEPT ![r] = FALSE]
            /\ UNCHANGED beats
    /\ UNCHANGED <<dbVars, createVars, envVars, otherVars, modelVars, pc, hasEnded, frames, ends,
                   rejected, closed, handlers, gen, processedSvgContent, emitted, lastError,
                   provFailed, charged, storageFailed>>

\* A step of the request or of its keepalive interval.
TimedStep(r) == StreamStep(r) \/ KeepAlive(r)

InitDb ==
    /\ userExists \in BOOLEAN
    /\ initialCredits \in 0..MaxCredits
    /\ remainingCredits = initialCredits
    /\ nextGenId = 1
    /\ generations = {}
    /\ versions = {}
    /\ rowLock = 0

InitStreams(active, faults, frags, flags) ==
    /\ writeFaults = faults
    /\ fragSet = frags
    /\ isThinking \in [Reqs -> flags]
    /\ \A r \in Reqs \ active : isThinking[r] = "base"
    /\ modelNames = [r \in Reqs |-> <<>>]
    /\ currentModel = [r \in Reqs |-> ""]
    /\ attempts = [r \in Reqs |-> 0]
    /\ keepAlive = [r \in Reqs |-> FALSE]
    /\ beats = [r \in Reqs |-> 0]
    /\ pc = [r \in Reqs |-> IF r \in active THEN "findUser" ELSE "unused"]
    /\ hasEnded = [r \in Reqs |-> FALSE]
    /\ frames = [r \in Reqs |-> <<>>]
    /\ ends = [r \in Reqs |-> 0]
    /\ rejected = [r \in Reqs |-> FALSE]
    /\ closed = [r \in Reqs |-> "open"]
    /\ handlers = [r \in Reqs |-> FALSE]
    /\ gen = [r \in Reqs |-> 0]
    /\ processedSvgContent = [r \in Reqs |-> <<>>]
    /\ emitted = [r \in Reqs |-> <<>>]
    /\ lastError = [r \in Reqs |-> FALSE]
    /\ provFailed = [r \in Reqs |-> FALSE]
    /\ charged = [r \in Reqs |-> FALSE]
    /\ storageFailed = [r \in Reqs |-> FALSE]

InitCreates(active) ==
    /\ cpc = [c \in Creates |-> IF c \in active THEN "findUser" ELSE "unused"]
    /\ cgen = [c \in Creates |-> 0]
    /\ tx = [c \in Creates |-> {}]

\* ------------------------------------------------------------------ create
\* The store after the transaction of call c commits: every statement it
\* ran (stmts) takes effect.
CommitTx(c, stmts) ==
    [remainingCredits |-> IF "update" \in stmts THEN Decrement(remainingCredits) ELSE remainingCredits,
     generations |-> IF "generation" \in stmts THEN generations \cup {cgen[c]}
                     ELSE generations,
     versions |-> IF "version" \in stmts THEN versions \cup {PlaceholderVersion(cgen[c])}
                  ELSE versions]

\* A rollback that leaves the decrement in place, as it would be had the
\* update been issued outside the transaction.
RollbackKeepsUpdate(c, stmts) ==
    [remainingCredits |-> IF "update" \in stmts THEN Decrement(remainingCredits)
                          ELSE remainingCredits,
     generations |-> generations, versions |-> versions]

\* The store after the transaction of call c is rolled back because its
\* callback threw: no statement takes effect.
RollbackTx(c, stmts) ==
    [remainingCredits |-> remainingCredits, generations |-> generations, versions |-> versions]

SetStore(db) ==
    /\ remainingCredits' = db.remainingCredits
    /\ generations' = db.generations
    /\ versions' = db.versions

\* A statement of the transaction fails: $transaction rolls back and create
\* rejects.
TxFail(c) ==
    /\ SetStore(RollbackTx(c, tx[c]))
    /\ rowLock' = IF rowLock = c THEN 0 ELSE rowLock
    /\ cpc' = [cpc EXCEPT ![c] = "failed"]

\* findUnique of the user and the checks before the transaction.
CreateCheck(c) ==
    /\ cpc[c] = "findUser"
    /\ \E ok \in BOOLEAN :
         cpc' = [cpc EXCEPT ![c] = IF ok /\ userExists /\ HasCredit(remainingCredits)
                                   THEN "txUpdate" ELSE "failed"]
    /\ UNCHANGED <<dbVars, streamVars, envVars, otherVars, cgen, tx>>

\* prisma.user.update inside the transaction; it takes the lock of the row.
TxUpdate(c) ==
    /\ cpc[c] = "txUpdate"
    /\ \E ok \in BOOLEAN :
         IF ok
         THEN /\ rowLock = 0
              /\ rowLock' = c
              /\ tx' = [tx EXCEPT ![c] = @ \cup {"update"}]
              /\ cpc' = [cpc EXCEPT ![c] = "txGeneration"]
              /\ UNCHANGED <<remainingCredits, generations, versions>>
         ELSE TxFail(c) /\ UNCHANGED tx
    /\ UNCHANGED <<userExists, initialCredits, nextGenId, streamVars, envVars, otherVars, cgen>>

\* prisma.svgGeneration.create inside the transaction.
TxCreateGeneration(c) ==
    /\ cpc[c] = "txGeneration"
    /\ \E ok \in BOOLEAN :
         IF ok
         THEN /\ cgen' = [cgen EXCEPT ![c] = nextGenId]
              /\ nextGenId' = nextGenId + 1
              /\ tx' = [tx EXCEPT ![c] = @ \cup {"generation"}]
              /\ cpc' = [cpc EXCEPT ![c] = "txVersion"]
              /\ UNCHANGED <<remainingCredits, generations, versions, rowLock>>
         ELSE TxFail(c) /\ UNCHANGED <<tx, cgen, nextGenId>>
    /\ UNCHANGED <<userExists, initialCredits, streamVars, envVars, otherVars>>

\* prisma.svgVersion.create of the placeholder, the last statement: the
\* callback returns and the transaction commits.
TxCreateVersion(c) ==
    /\ cpc[c] = "txVersion"
    /\ \E ok \in BOOLEAN :
         IF ok /\ ~VersionExists(cgen[c], 1)
         THEN /\ SetStore(CommitTx(c, tx[c] \cup {"version"}))
              /\ tx' = [tx EXCEPT ![c] = @ \cup {"version"}]
              /\ rowLock' = 0
              /\ cpc' = [cpc EXCEPT ![c] = "done"]
         ELSE TxFail(c) /\ UNCHANGED tx
    /\ UNCHANGED <<userExists, initialCredits, nextGenId, streamVars, envVars, otherVars, cgen>>

CreateStep(c) ==
    \/ CreateCheck(c)
    \/ TxUpdate(c)
    \/ TxCreateGeneration(c)
    \/ TxCreateVersion(c)

\* ----------------------------------------------- cleanSvgContent on its own
\* One call of cleanSvgContent.
CleanCall ==
    /\ cleanPc = "call"
    /\ cleaned' = CleanSvgContent(svgContent)
    /\ cleanPc' = "returned"
    /\ UNCHANGED <<dbVars, streamVars, createVars, envVars, sideVars, editVars, aspectVars, svgContent>>

InitClean(active, inputs) ==
    /\ svgContent \in inputs
    /\ cleaned = <<>>
    /\ cleanPc = IF active THEN "call" ELSE "unused"

\* ------------------------------------------------------ the canvas height
SVG_WIDTH == 800

\* A JavaScript number: an integer, or NaN.
Num(v) == [nan |-> FALSE, val |-> v]
NaN == [nan |-> TRUE, val |-> 0]

\* The characters of an aspectRatio string.
Digits == {"0", "1", "6", "9"}
RatioChars == Digits \cup {"-", ":"}

DigitValue(c) == CASE c = "0" -> 0 [] c = "1" -> 1 [] c = "6" -> 6 [] c = "9" -> 9

\* The value of a sequence of decimal digits.
RECURSIVE DigitsValue(_)
DigitsValue(ds) ==
    IF ds = <<>> THEN 0
    ELSE 10 * DigitsValue(SubSeq(ds, 1, Len(ds) - 1)) + DigitValue(ds[Len(ds)])

IsDigits(cs) == cs # <<>> /\ \A k \in 1..Len(cs) : cs[k] \in Digits

\* Number(text): 0 for the empty string, the value of an optionally signed
\* sequence of digits, NaN for anything else.
Number(cs) ==
    IF cs = <<>> THEN Num(0)
    ELSE IF IsDigits(cs) THEN Num(DigitsValue(cs))
    ELSE IF Head(cs) = "-" /\ IsDigits(Tail(cs)) THEN Num(0 - DigitsValue(Tail(cs)))
    ELSE NaN

\* aspectRatio.split(":")
RECURSIVE Split(_)
Split(cs) ==
    LET colons == {k \in 1..Len(cs) : cs[k] = ":"}
    IN  IF colons = {} THEN <<cs>>
        ELSE <<SubSeq(cs, 1, First(colons) - 1)>> \o Split(SubSeq(cs, First(colons) + 1, Len(cs)))

\* A rounding that drops the fraction.
MathFloor(n, d) == n \div d

\* Math.round(n / d) for n >= 0 and d > 0: the nearest integer, a half goes up.
MathRound(n, d) == (2 * n + d) \div (2 * d)

\* x <= 0, false when x is NaN.
NotPositive(x) == ~x.nan /\ x.val <= 0

\* calculateHeightFromAspectRatio
CalculateHeightFromAspectRatio(ratio) ==
    IF ratio = <<>> \/ \A k \in 1..Len(ratio) : ratio[k] # ":"
    THEN Num(SVG_WIDTH)
    ELSE LET parts == Split(ratio)
             w == Number(parts[1])
             h == Number(parts[2])
         IN  IF NotPositive(w) \/ NotPositive(h) THEN Num(SVG_WIDTH)
             ELSE IF w.nan \/ h.nan THEN NaN
             ELSE Num(MathRound(SVG_WIDTH * h.val, w.val))

\* let height = this.SVG_WIDTH; if (data.aspectRatio) height = calculate...
ResolveHeight ==
    /\ heightPc = "call"
    /\ height' = IF aspectRatio = <<>> THEN Num(SVG_WIDTH)
                 ELSE CalculateHeightFromAspectRatio(aspectRatio)
    /\ heightPc' = "resolved"
    /\ UNCHANGED <<dbVars, streamVars, createVars, envVars, sideVars, editVars, cleanVars, aspectRatio,
                   type, configuration, prompts, svgPlaceholder>>

\* The decimal digits of a natural number, as a template literal writes it.
RECURSIVE DigitsOf(_)
DigitsOf(n) ==
    LET d == n % 10
        c == CASE d = 0 -> "0" [] d = 1 -> "1" [] d = 2 -> "2" [] d = 3 -> "3" [] d = 4 -> "4"
               [] d = 5 -> "5" [] d = 6 -> "6" [] d = 7 -> "7" [] d = 8 -> "8" [] d = 9 -> "9"
    IN  IF n < 10 THEN <<c>> ELSE DigitsOf(n \div 10) \o <<c>>

\* ${x} in a template literal, x a number that is not negative.
TemplateText(x) == IF x.nan THEN <<"N", "a", "N">> ELSE DigitsOf(x.val)

\* A number as the Json column holds it: JSON has no NaN, it is stored as null.
JsonNull == [kind |-> "null", val |-> 0]
JsonNumber(x) == IF x.nan THEN JsonNull ELSE [kind |-> "number", val |-> x.val]

\* prepareConfiguration, as svgGeneration.create stores its width and height.
PrepareConfiguration(w, h) == [width |-> JsonNumber(Num(w)), height |-> JsonNumber(h)]

\* viewBox="0 0 ${width} ${height}"
ViewBox(w, h) == [width |-> TemplateText(Num(w)), height |-> TemplateText(h)]

\* The prompt without text and without a viewBox.
EmptyPrompt == [text |-> "", viewBoxes |-> <<>>]

\* getPrompts: empty prompts for type "custom"; otherwise the user prompt
\* with the input and the system prompt, which names the viewBox twice.
GetPrompts(promptType, w, h) ==
    IF promptType = "custom"
    THEN [fullPrompt |-> EmptyPrompt, systemPrompt |-> EmptyPrompt]
    ELSE [fullPrompt |-> [text |-> "inputContent", viewBoxes |-> <<>>],
          systemPrompt |-> [text |-> "instructions",
                            viewBoxes |-> <<ViewBox(w, h), ViewBox(w, h)>>]]

\* The height resolution followed by what create and createStream build from
\* the height: the configuration they store, the prompts (createStream) and
\* the placeholder document (create).
PrepareRequest ==
    /\ heightPc = "call"
    /\ LET h == IF aspectRatio = <<>> THEN Num(SVG_WIDTH)
                ELSE CalculateHeightFromAspectRatio(aspectRatio)
       IN  /\ height' = h
           /\ configuration' = PrepareConfiguration(SVG_WIDTH, h)
           /\ prompts' = GetPrompts(type, SVG_WIDTH, h)
           /\ svgPlaceholder' = ViewBox(SVG_WIDTH, h)
    /\ heightPc' = "prepared"
    /\ UNCHANGED <<dbVars, streamVars, createVars, envVars, sideVars, editVars, cleanVars, aspectRatio, type>>

\* The values of data.type: the default mode and the custom mode.
PromptTypes == {"", "custom"}

InitAspect(active, inputs, types) ==
    /\ aspectRatio \in inputs
    /\ height = Num(SVG_WIDTH)
    /\ heightPc = IF active THEN "call" ELSE "unused"
    /\ type \in types
    /\ configuration = PrepareConfiguration(SVG_WIDTH, Num(SVG_WIDTH))
    /\ prompts = [fullPrompt |-> EmptyPrompt, systemPrompt |-> EmptyPrompt]
    /\ svgPlaceholder = ViewBox(SVG_WIDTH, Num(SVG_WIDTH))

\* -------------------------------------------------------- updateSvgVersion
HistoryLimit == 10

Editors == 1..NumEditors

\* The id of the stored Version row, and the ids the clients ask for.
EditedVersionId == 1
VersionIds == {EditedVersionId, EditedVersionId + 1}

\* The new contents the clients send: a fenced document, bare leaf elements.
EditInputs == {<<Fence, OpenTagNs, LeafElement, CloseTag, Fence>>, <<LeafElement>>}

\* The text a provider streamed for the Version.
RawDocument == <<Fence, OpenTag, LeafElement, CloseTag>>

\* The Version row as create or createStream inserted it.
CreatedVersion(origin) ==
    IF origin = "createStream"
    THEN [svgContent |-> CleanSvgContent(RawDocument),
          svgModifyList |-> <<ModifyRecord(RawDocument, 0)>>, lastEditedAt |-> 0]
    ELSE [svgContent |-> PlaceholderSvg, svgModifyList |-> <<>>, lastEditedAt |-> 0]

\* The filter on the stored list: objects with content, timestamp and editedBy.
IsModifyRecord(item) == {"content", "timestamp", "editedBy"} \subseteq DOMAIN item

\* Array.prototype.unshift
Unshift(list, item) == <<item>> \o list

\* An eviction with Array.prototype.shift: the first element goes.
Shift(list) == Tail(list)

\* Array.prototype.pop: the last element goes.
Pop(list) == SubSeq(list, 1, Len(list) - 1)

\* A history that grows without limit.
AddWithoutLimit(list, modifyRecord) == Unshift(list, modifyRecord)

\* modifyList.unshift(modifyRecord); if (modifyList.length > 10) modifyList.pop();
AddModifyRecord(list, modifyRecord) ==
    LET added == Unshift(list, modifyRecord)
    IN  IF Len(added) > HistoryLimit THEN Pop(added) ELSE added

\* svgVersion.findUnique returns: the call throws (storage error, or
\* NotFoundException for an unknown id) or builds the list it will store.
EditFind(e) ==
    /\ epc[e] = "idle"
    /\ clock <= (IF serialEdits THEN MaxEdits ELSE MaxRaceEdits)
    /\ serialEdits => \A d \in Editors : epc[d] \in {"idle", "unused"}
    /\ \E versionId \in VersionIds, text \in EditInputs, ok \in BOOLEAN :
         IF ok /\ versionId = EditedVersionId
         THEN /\ cleanedSvgContent' = [cleanedSvgContent EXCEPT ![e] = CleanSvgContent(text)]
              /\ modifyList' = [modifyList EXCEPT ![e] =
                     AddModifyRecord(SelectSeq(existingVersion.svgModifyList, IsModifyRecord),
                                     ModifyRecord(CleanSvgContent(text), clock))]
              /\ epc' = [epc EXCEPT ![e] = "update"]
         ELSE UNCHANGED <<epc, modifyList, cleanedSvgContent>>
    /\ UNCHANGED <<dbVars, streamVars, createVars, envVars, sideVars, cleanVars, aspectVars,
                   existingVersion, clock, allEdits, serialEdits>>

\* svgVersion.update returns: the row holds the new content and the list, or
\* the call throws and the row is as it was.
EditUpdate(e) ==
    /\ epc[e] = "update"
    /\ \E ok \in BOOLEAN :
         IF ok
         THEN /\ existingVersion' = [svgContent |-> cleanedSvgContent[e],
                                     svgModifyList |-> modifyList[e],
                                     lastEditedAt |-> clock]
              /\ allEdits' = Unshift(allEdits, modifyList[e][1])
              /\ clock' = clock + 1
         ELSE UNCHANGED <<existingVersion, allEdits, clock>>
    /\ epc' = [epc EXCEPT ![e] = "idle"]
    /\ modifyList' = [modifyList EXCEPT ![e] = <<>>]
    /\ cleanedSvgContent' = [cleanedSvgContent EXCEPT ![e] = <<>>]
    /\ UNCHANGED <<dbVars, streamVars, createVars, envVars, sideVars, cleanVars, aspectVars, serialEdits>>

EditStep(e) == EditFind(e) \/ EditUpdate(e)

InitEdits(active, serial, origins) ==
    /\ serialEdits = serial
    /\ \E origin \in origins :
         /\ existingVersion = CreatedVersion(origin)
         /\ allEdits = CreatedVersion(origin).svgModifyList
    /\ epc = [e \in Editors |-> IF e \in active THEN "idle" ELSE "unused"]
    /\ modifyList = [e \in Editors |-> <<>>]
    /\ cleanedSvgContent = [e \in Editors |-> <<>>]
    /\ clock = 1

\* ------------------------------------------------- listings and visibility
\* The ids of the stored SvgGeneration rows and the users who own them.
GenIds == 1..NumGens
UserIds == {1, 2}

\* The user findByUserIdPaginated is called for.
ListedUser == 1

\* The listings: findAllPaginated, findByUserIdPaginated, findPublicPaginated.
Listings == {"findAllPaginated", "findByUserIdPaginated", "findPublicPaginated"}

\* The `where` of a listing, applied to a row.
Where(listing, row) ==
    CASE listing = "findAllPaginated" -> TRUE
      [] listing = "findByUserIdPaginated" -> row.userId = ListedUser
      [] listing = "findPublicPaginated" -> row.isPublic

\* svgGeneration.count({where})
Count(listing) == Cardinality({g \in DOMAIN svgGenerations : Where(listing, svgGenerations[g])})

\* A listing that skips the pages up to and including the one asked for.
SkipThisPageToo(page, pageSize) == page * pageSize

\* const skip = (page - 1) * pageSize;
Skip(page, pageSize) == (page - 1) * pageSize

\* orderBy: {createdAt: "desc"}: the orders the store may return the rows in;
\* rows created at the same time come in any order.
OrderByCreatedAtDesc(ids) ==
    {order \in [1..Cardinality(ids) -> ids] :
        /\ \A i, j \in DOMAIN order : i # j => order[i] # order[j]
        /\ \A i, j \in DOMAIN order :
              i < j => svgGenerations[order[i]].createdAt >= svgGenerations[order[j]].createdAt}

\* skip and take of findMany
SkipTake(order, skip, take) ==
    [k \in 1..(IF Len(order) - skip < take
               THEN (IF Len(order) > skip THEN Len(order) - skip ELSE 0)
               ELSE take) |-> order[skip + k]]

\* include: {svgVersions: {orderBy: {versionNumber: "desc"}, take: 1}}
Include(g) ==
    LET svgVersionsOfG == {v \in svgVersions : v.generationId = g}
    IN  IF svgVersionsOfG = {} THEN <<>>
        ELSE <<CHOOSE v \in svgVersionsOfG :
                   \A w \in svgVersionsOfG : w.versionNumber <= v.versionNumber>>

\* new SvgGenerationWithVersionData(generation, latestVersion)
SvgGenerationWithVersionData(g) == [id |-> g, latestVersion |-> Include(g)]

\* svgGeneration.count returns: the listing holds the total, or the call
\* throws.
ListCount ==
    /\ lpc = "idle"
    /\ \E listing \in Listings, page \in 1..MaxPage, pageSize \in 1..MaxPageSize, ok \in BOOLEAN :
         IF ok
         THEN /\ query' = [listing |-> listing, page |-> page, pageSize |-> pageSize]
              /\ total' = Count(listing)
              /\ lpc' = "findMany"
         ELSE /\ lpc' = "failed"
              /\ UNCHANGED <<query, total>>
    /\ UNCHANGED <<svgGenerations, svgVersions, stamp, upc, target, outcome, items>>
    /\ UNCHANGED <<dbVars, streamVars, createVars, envVars, editVars, cleanVars, aspectVars, authVars>>

\* svgGeneration.findMany returns: the listing returns the items and the
\* total, or the call throws.
ListFindMany ==
    /\ lpc = "findMany"
    /\ \E ok \in BOOLEAN :
         IF ok
         THEN \E order \in OrderByCreatedAtDesc(
                      {g \in DOMAIN svgGenerations : Where(query.listing, svgGenerations[g])}) :
                  /\ items' = [k \in DOMAIN SkipTake(order, Skip(query.page, query.pageSize),
                                                     query.pageSize) |->
                                  SvgGenerationWithVersionData(
                                      SkipTake(order, Skip(query.page, query.pageSize),
                                               query.pageSize)[k])]
                  /\ lpc' = "done"
         ELSE lpc' = "failed" /\ UNCHANGED items
    /\ UNCHANGED <<svgGenerations, svgVersions, stamp, upc, target, outcome, query, total>>
    /\ UNCHANGED <<dbVars, streamVars, createVars, envVars, editVars, cleanVars, aspectVars, authVars>>

\* An update that writes the title as well.
DataWithTitle(row, isPublic, now) ==
    [row EXCEPT !.isPublic = isPublic, !.title = "", !.updatedAt = now]

\* data: {isPublic}, and the @updatedAt column the client sets on every update.
UpdateData(row, isPublic, now) == [row EXCEPT !.isPublic = isPublic, !.updatedAt = now]

\* The arguments of updatePublicStatus while no call is at its update.
NoTarget == [id |-> 0, isPublic |-> FALSE]

\* updatePublicStatus, svgGeneration.findUnique returns: NotFoundException for
\* an unknown id, or the call goes on to the update, or the call throws.
PublicFindUnique ==
    /\ upc = "idle"
    /\ stamp <= MaxUpdates
    /\ \E id \in GenIds \cup {NumGens + 1}, isPublic \in BOOLEAN, ok \in BOOLEAN :
         IF ~ok THEN outcome' = [id |-> id, result |-> "error"] /\ UNCHANGED <<upc, target>>
         ELSE IF id \notin DOMAIN svgGenerations
              THEN /\ outcome' = [id |-> id, result |-> "NotFoundException"]
                   /\ UNCHANGED <<upc, target>>
              ELSE /\ outcome' = [id |-> id, result |-> ""]
                   /\ upc' = "update"
                   /\ target' = [id |-> id, isPublic |-> isPublic]
    /\ UNCHANGED <<svgGenerations, svgVersions, stamp, lpc, query, total, items>>
    /\ UNCHANGED <<dbVars, streamVars, createVars, envVars, editVars, cleanVars, aspectVars, authVars>>

\* updatePublicStatus, svgGeneration.update returns: the row is written, or
\* the call throws and the row is as it was.
PublicUpdate ==
    /\ upc = "update"
    /\ \E ok \in BOOLEAN :
         IF ok
         THEN /\ svgGenerations' = [svgGenerations EXCEPT ![target.id] =
                                        UpdateData(svgGenerations[target.id], target.isPublic, stamp)]
              /\ stamp' = stamp + 1
              /\ outcome' = [id |-> target.id, result |-> "updated"]
         ELSE /\ outcome' = [id |-> target.id, result |-> "error"]
              /\ UNCHANGED <<svgGenerations, stamp>>
    /\ upc' = "idle"
    /\ target' = NoTarget
    /\ UNCHANGED <<svgVersions, lpc, query, total, items>>
    /\ UNCHANGED <<dbVars, streamVars, createVars, envVars, editVars, cleanVars, aspectVars, authVars>>

\* The rows of the store before the calls: every generation has an owner and
\* a creation time and is private, as it was created, and generation g has
\* g - 1 versions.
InitCatalog(active) ==
    /\ IF active
       THEN svgGenerations \in [GenIds -> [userId : UserIds, isPublic : {FALSE},
                                           createdAt : 1..MaxCreatedAt, updatedAt : {0},
                                           title : {"title"}]]
       ELSE svgGenerations = [g \in GenIds |-> [userId |-> 1, isPublic |-> FALSE,
                                                createdAt |-> 1, updatedAt |-> 0,
                                                title |-> "title"]]
    /\ svgVersions = {v \in [generationId : GenIds, versionNumber : 1..NumGens] :
                          v.versionNumber < v.generationId}
    /\ stamp = 1
    /\ lpc = IF active THEN "idle" ELSE "unused"
    /\ query = [listing |-> "findAllPaginated", page |-> 1, pageSize |-> 1]
    /\ total = 0
    /\ items = <<>>
    /\ upc = IF active THEN "idle" ELSE "unused"
    /\ target = NoTarget
    /\ outcome = [id |-> 0, result |-> ""]

\* ---------------------------------------------------- logout and JwtGuard
\* The tokens clients present; NoToken is a request without a Bearer token.
Tokens == 1..NumTokens
NoToken == 0

\* A cleanup that drops the entries about to expire as well.
ExpiresWithinTwo(expiry, now) == expiry < now + 2

\* if (expiry < now) this.blacklist.delete(token);
Expired(expiry, now) == expiry < now

\* jwt.decode(token).exp, undefined (0 here) for a token without the claim
DecodeExp(token) == tokenExp[token]

\* jwt.verify(token, JWT_SECRET) on a token the server signed: it throws once
\* the time has reached the token's exp.
JwtVerify(token, now) == DecodeExp(token) = 0 \/ now < DecodeExp(token)

\* isBlacklisted
IsBlacklisted(token) == token \in DOMAIN blacklist

\* AuthService.logout(token) with addToBlacklist: success when the token has
\* an exp, and then the token is in the blacklist with its expiry.
Logout(token) ==
    /\ IF DecodeExp(token) = 0
       THEN /\ logouts' = [logouts EXCEPT ![token] = "failure"]
            /\ UNCHANGED blacklist
       ELSE /\ blacklist' = [t \in DOMAIN blacklist \cup {token} |->
                                IF t = token THEN DecodeExp(token) ELSE blacklist[t]]
            /\ logouts' = [logouts EXCEPT ![token] = "success"]
    /\ UNCHANGED <<tokenExp, time, gpc, guarded, verdict>>
    /\ UNCHANGED <<dbVars, streamVars, createVars, envVars, editVars, cleanVars, aspectVars, listVars>>

\* cleanupExpiredTokens, run by the hourly interval
CleanupExpiredTokens ==
    /\ blacklist' = [t \in {u \in DOMAIN blacklist : ~Expired(blacklist[u], time)} |-> blacklist[t]]
    /\ UNCHANGED <<tokenExp, time, logouts, gpc, guarded, verdict>>
    /\ UNCHANGED <<dbVars, streamVars, createVars, envVars, editVars, cleanVars, aspectVars, listVars>>

\* A second passes.
Tick ==
    /\ time < MaxTime
    /\ time' = time + 1
    /\ UNCHANGED <<tokenExp, blacklist, logouts, gpc, guarded, verdict>>
    /\ UNCHANGED <<dbVars, streamVars, createVars, envVars, editVars, cleanVars, aspectVars, listVars>>

\* JwtGuard.canActivate up to its await: a public route passes, a missing or a
\* blacklisted token is refused, any other token goes to jwtStrategy.validate.
CanActivate ==
    /\ gpc = "idle"
    /\ \E token \in Tokens \cup {NoToken}, isPublic \in BOOLEAN :
         /\ guarded' = [token |-> token, isPublic |-> isPublic,
                        afterLogout |-> token # NoToken /\ logouts[token] = "success",
                        blacklisted |-> IsBlacklisted(token)]
         /\ IF isPublic THEN verdict' = "activated" /\ gpc' = "idle"
            ELSE IF token = NoToken \/ IsBlacklisted(token)
                 THEN verdict' = "UnauthorizedException" /\ gpc' = "idle"
                 ELSE verdict' = "" /\ gpc' = "validate"
    /\ UNCHANGED <<tokenExp, time, blacklist, logouts>>
    /\ UNCHANGED <<dbVars, streamVars, createVars, envVars, editVars, cleanVars, aspectVars, listVars>>

\* jwtStrategy.validate returns: the token is verified and the user is looked
\* up; an expired token, a missing or inactive user or a storage error make
\* canActivate throw.
Validate ==
    /\ gpc = "validate"
    /\ \E userOk \in BOOLEAN :
         verdict' = IF JwtVerify(guarded.token, time) /\ userOk
                    THEN "activated" ELSE "UnauthorizedException"
    /\ gpc' = "idle"
    /\ UNCHANGED <<tokenExp, time, blacklist, logouts, guarded>>
    /\ UNCHANGED <<dbVars, streamVars, createVars, envVars, editVars, cleanVars, aspectVars, listVars>>

\* The tokens in circulation and an empty blacklist, as the constructor
\* leaves it.
InitAuth(active) ==
    /\ IF active THEN tokenExp \in [Tokens -> 0..MaxTime]
       ELSE tokenExp = [t \in Tokens |-> 0]
    /\ time = 0
    /\ blacklist = [t \in {} |-> 0]
    /\ logouts = [t \in Tokens |-> "none"]
    /\ gpc = IF active THEN "idle" ELSE "unused"
    /\ guarded = [token |-> NoToken, isPublic |-> TRUE, afterLogout |-> FALSE, blacklisted |-> FALSE]
    /\ verdict = ""

\* No listing, no updatePublicStatus, no logout and no guarded request runs.
InitSide == InitCatalog(FALSE) /\ InitAuth(FALSE)

\* Nothing but createStream and create runs.
InitOther ==
    /\ InitEdits({}, TRUE, {"create"}) /\ InitClean(FALSE, {<<>>}) /\ InitAspect(FALSE, {<<>>}, {""})
    /\ InitSide

NextStream == \E r \in Reqs : StreamStep(r)

NextCreate == \E c \in Creates : CreateStep(c)
Next == NextStream \/ NextCreate

\* One createStream request and one create call of the user.
Init == InitDb /\ InitStreams({1}, TRUE, Fragments, {"base"}) /\ InitCreates({1}) /\ InitOther
Spec == Init /\ [][Next]_vars

\* The values of data.isThinking that the request validation lets through.
ThinkingFlags == {"base", "thinking"}

\* One createStream request, nothing else, over a channel whose writes may
\* throw or over one whose writes do not.
InitOne ==
    /\ InitDb /\ (\E faults \in BOOLEAN : InitStreams({1}, faults, Fragments, ThinkingFlags))
    /\ InitCreates({}) /\ InitOther
SpecOne == InitOne /\ [][NextStream]_vars

\* One createStream request and its keepalive interval, over a channel whose
\* writes do not throw.
NextTimed == \E r \in Reqs : TimedStep(r)
InitTimed ==
    InitDb /\ InitStreams({1}, FALSE, Fragments, {"base"}) /\ InitCreates({}) /\ InitOther
SpecTimed == InitTimed /\ [][NextTimed]_vars

\* NumReq concurrent createStream requests of the user whose writes to the
\* channel do not throw.
InitStream == InitDb /\ InitStreams(Reqs, FALSE, {OpenTag}, {"base"}) /\ InitCreates({}) /\ InitOther
SpecStream == InitStream /\ [][NextStream]_vars

\* NumCreate concurrent create calls of the user.
InitCreate == InitDb /\ InitStreams({}, FALSE, {OpenTag}, {"base"}) /\ InitCreates(Creates) /\ InitOther
SpecCreate == InitCreate /\ [][NextCreate]_vars

\* The store with one user and no request in flight.
InitIdle ==
    /\ InitDb /\ userExists /\ initialCredits = MaxCredits
    /\ InitStreams({}, FALSE, {OpenTag}, {"base"}) /\ InitCreates({})

\* The clients edit one Version, one updateSvgVersion call at a time.
NextEdit == \E e \in Editors : EditStep(e)
InitEdit ==
    /\ InitIdle /\ InitEdits(Editors, TRUE, {"create", "createStream"})
    /\ InitClean(FALSE, {<<>>}) /\ InitAspect(FALSE, {<<>>}, {""}) /\ InitSide
SpecEdit == InitEdit /\ [][NextEdit]_vars

\* The clients edit one Version and do not wait for each other: a call may
\* start while another one is between its findUnique and its update.
InitEditRace ==
    /\ InitIdle /\ InitEdits(Editors, FALSE, {"create", "createStream"})
    /\ InitClean(FALSE, {<<>>}) /\ InitAspect(FALSE, {<<>>}, {""}) /\ InitSide
SpecEditRace == InitEditRace /\ [][NextEdit]_vars

\* cleanSvgContent is called once on a text of at most MaxTokens tokens.
InitSanitize ==
    /\ InitIdle /\ InitEdits({}, TRUE, {"create"})
    /\ InitClean(TRUE, BoundedSeq(InputTokens, MaxTokens)) /\ InitAspect(FALSE, {<<>>}, {""})
    /\ InitSide
SpecSanitize == InitSanitize /\ [][CleanCall]_vars

\* The height is resolved once for an aspectRatio of at most MaxRatioLen
\* characters.
InitHeight ==
    /\ InitIdle /\ InitEdits({}, TRUE, {"create"}) /\ InitClean(FALSE, {<<>>})
    /\ InitAspect(TRUE, BoundedSeq(RatioChars, MaxRatioLen), {""}) /\ InitSide
SpecHeight == InitHeight /\ [][ResolveHeight]_vars

\* The height is resolved and the configuration, the prompts and the
\* placeholder are built for an aspectRatio of at most MaxRatioLen characters,
\* in default or in custom mode.
InitPrepare ==
    /\ InitIdle /\ InitEdits({}, TRUE, {"create"}) /\ InitClean(FALSE, {<<>>})
    /\ InitAspect(TRUE, BoundedSeq(RatioChars, MaxRatioLen), PromptTypes) /\ InitSide
SpecPrepare == InitPrepare /\ [][PrepareRequest]_vars

\* A listing and updatePublicStatus calls on a store of NumGens generations.
NextCatalog == ListCount \/ ListFindMany \/ PublicFindUnique \/ PublicUpdate
InitCatalogOnly ==
    /\ InitIdle /\ InitEdits({}, TRUE, {"create"}) /\ InitClean(FALSE, {<<>>})
    /\ InitAspect(FALSE, {<<>>}, {""}) /\ InitCatalog(TRUE) /\ InitAuth(FALSE)
SpecCatalog == InitCatalogOnly /\ [][NextCatalog]_vars

\* Logouts, guarded requests, the cleanup of the blacklist and the clock.
NextAuth ==
    \/ \E token \in Tokens : Logout(token)
    \/ CleanupExpiredTokens
    \/ Tick
    \/ CanActivate
    \/ Validate
InitAuthOnly ==
    /\ InitIdle /\ InitEdits({}, TRUE, {"create"}) /\ InitClean(FALSE, {<<>>})
    /\ InitAspect(FALSE, {<<>>}, {""}) /\ InitCatalog(FALSE) /\ InitAuth(TRUE)
SpecAuth == InitAuthOnly /\ [][NextAuth]_vars

\* ----------------------------------------------------------------- fairness
\* Every step of a request but the client going away: storage calls return,
\* the provider stream yields, ends or fails, a connected client drains.
Progress(r) ==
    \/ Authorize(r)
    \/ CreateGeneration(r)
    \/ ProviderChunk(r)
    \/ ProviderEnd(r)
    \/ ProviderFail(r)
    \/ Drain(r)
    \/ PersistVersion(r)
    \/ DecrementCredit(r)

FairSpecOne == SpecOne /\ \A r \in Reqs : WF_vars(Progress(r))

\* The same with the keepalive interval: its callback runs every 30 seconds
\* for as long as the interval is set.
FairSpecTimed == SpecTimed /\ \A r \in Reqs : WF_vars(Progress(r)) /\ WF_vars(KeepAlive(r))

\* ------------------------------------------------------------------- claims
NumStatus(fs, st) == Cardinality({i \in 1..Len(fs) : fs[i].status = st})
NumTerminal(fs) == NumStatus(fs, "completed") + NumStatus(fs, "error")
Charged == {r \in Reqs : charged[r]}
Created == {c \in Creates : cpc[c] = "done"}

\* The chunk payloads of the streaming frames of fs, in the order written.
Chunks(fs) ==
    LET str == SelectSeq(fs, LAMBDA f : f.status = "streaming")
    IN  [i \in 1..Len(str) |-> str[i].chunk]

\* a can be obtained from b by deleting elements.
RECURSIVE IsSubsequence(_, _)
IsSubsequence(a, b) ==
    IF a = <<>> THEN TRUE
    ELSE IF b = <<>> THEN FALSE
    ELSE IF Head(a) = Head(b) THEN IsSubsequence(Tail(a), Tail(b))
    ELSE IsSubsequence(a, Tail(b))

IsPrefix(a, b) == Len(a) <= Len(b) /\ SubSeq(b, 1, Len(a)) = a

\* C1: with N concurrent createStream requests of a user whose balance was B,
\* remainingCredits is >= 0 in every reachable state and at most B requests
\* perform a successful decrement.
C1_StreamCreditNeverNegative ==
    /\ remainingCredits >= 0
    /\ Cardinality(Charged) <= initialCredits

\* C2: two concurrent create() calls never both take the same pre-decrement
\* balance as sufficient: with initial balance 1 at most one of them succeeds
\* and the balance never becomes negative.
C2_CreateCheckCoupledWithDecrement ==
    initialCredits = 1 => Cardinality(Created) <= 1 /\ remainingCredits >= 0

\* C3: every create() call has either all three effects (balance decremented
\* by 1, Generation row, Version 1 placeholder) or none of them: the balance
\* is the initial one less the calls that returned, and a call's Generation
\* and placeholder are stored exactly when the call returned.
C3_CreateAllOrNothing ==
    /\ remainingCredits = initialCredits - Cardinality(Created) - Cardinality(Charged)
    /\ \A c \in Creates :
         /\ cpc[c] = "done" <=> (cgen[c] # 0 /\ cgen[c] \in generations)
         /\ cpc[c] = "done" <=> (cgen[c] # 0 /\ PlaceholderVersion(cgen[c]) \in versions)
    /\ \A v \in versions : v.generationId \in generations

\* C3 witness: a call failed inside its transaction after the decrement and
\* the Generation insert had run, while another call returned.
C3_FailedInsideTransaction ==
    \E c, d \in Creates :
        /\ cpc[c] = "failed" /\ {"update", "generation"} \subseteq tx[c]
        /\ cpc[d] = "done"

\* C4: a createStream request never writes more than one frame with status
\* completed or error (not completed and error, not two error frames), and
\* when it is over, its client still connected and no write having thrown,
\* it has written exactly one.
C4_ExactlyOneTerminalFrame ==
    \A r \in Reqs :
        /\ NumTerminal(frames[r]) <= 1
        /\ (pc[r] = "done" /\ closed[r] = "open" /\ ~writeFaults)
              => NumTerminal(frames[r]) = 1

\* C5 as stated: every createStream request writes exactly one started frame,
\* before any other frame.
C5_ExactlyOneStarted ==
    \A r \in Reqs :
        pc[r] = "done" =>
            /\ NumStatus(frames[r], "started") = 1
            /\ frames[r][1].status = "started"

\* C5 amended: a request writes at most one started frame, only as its first
\* frame; a request whose Generation exists wrote it before any other frame
\* and holds exactly one while it streams; a request without a Generation
\* (rejected, or the insert failed) writes no started frame.
C5_StartedFirstAtMostOnce ==
    \A r \in Reqs :
        /\ NumStatus(frames[r], "started") <= 1
        /\ \A i \in 1..Len(frames[r]) : frames[r][i].status = "started" => i = 1
        /\ (gen[r] # 0 /\ frames[r] # <<>>) => frames[r][1].status = "started"
        /\ gen[r] = 0 => NumStatus(frames[r], "started") = 0
        /\ pc[r] \in {"awaitChunk", "awaitDrain", "createVersion", "decrement"}
              => NumStatus(frames[r], "started") = 1

\* C5 witness: a request is over with started, a streaming frame and
\* completed written.
C5_StreamedAndCompleted ==
    \E r \in Reqs :
        /\ pc[r] = "done"
        /\ NumStatus(frames[r], "started") = 1
        /\ NumStatus(frames[r], "streaming") >= 1
        /\ NumStatus(frames[r], "completed") = 1

\* C6: every execution of createStream finishes with the channel ended (or
\* already closed by the client), and reply.raw.end() is never called twice.
C6_ChannelEndedExactlyOnce ==
    \A r \in Reqs :
        /\ ends[r] <= 1
        /\ pc[r] = "done" => (ends[r] = 1 \/ closed[r] # "open")

\* C7: every createStream execution eventually terminates, whatever the
\* client does.
C7_EventuallyTerminates == <>(\A r \in Reqs : pc[r] \in {"unused", "done"})

\* C8: a request whose client disconnected before the provider stream ended
\* persists no Version and does not decrement the balance.
C8_DisconnectSkipsFinalization ==
    \A r \in Reqs :
        closed[r] = "early" => ~charged[r] /\ ~VersionExists(gen[r], 1)

\* C9: when the provider call failed, the request ends with the balance
\* unchanged and Version 1 of its generation still the placeholder.
C9_FailedGenerationKeepsCreditAndPlaceholder ==
    \A r \in Reqs :
        (pc[r] = "done" /\ provFailed[r] /\ gen[r] # 0) =>
            /\ ~charged[r]
            /\ PlaceholderVersion(gen[r]) \in versions

\* C10: every persisted Generation has a persisted Version 1, and that of a
\* createStream request is the placeholder until the final content is stored.
C10_VersionOneAlwaysExists ==
    /\ \A g \in generations : VersionExists(g, 1)
    /\ \A r \in Reqs :
         (gen[r] # 0 /\ FinalVersion(r) \notin versions)
             => PlaceholderVersion(gen[r]) \in versions

\* C11: a createStream request decrements the balance only after its final
\* Version has been stored: no request is charged, or suspended on the
\* decrement, while its generation has no stored final Version.
C11_ChargedImpliesStored ==
    \A r \in Reqs :
        (charged[r] \/ pc[r] = "decrement") =>
            /\ gen[r] # 0
            /\ FinalVersion(r) \in versions

\* C11 witness: a request is over, charged, with its final Version stored.
C11_ChargedAndStored ==
    \E r \in Reqs :
        /\ pc[r] = "done" /\ charged[r]
        /\ remainingCredits = initialCredits - 1
        /\ FinalVersion(r) \in versions

\* C12: when the user does not exist or remainingCredits <= 0 at the lookup,
\* create() fails at once and createStream() is over at once with one error
\* frame as its only frame (none only if the write of that frame throws), and
\* in both cases no Generation and no Version is created and the balance is
\* unchanged.
C12_RejectionBeforeSideEffects ==
    [][/\ \A r \in Reqs :
            (pc[r] = "findUser" /\ pc'[r] # "findUser" /\ (~userExists \/ remainingCredits <= 0)) =>
                /\ pc'[r] = "done" /\ gen'[r] = 0 /\ ~charged'[r]
                /\ \/ frames'[r] = <<ErrorFrame>>
                   \/ writeFaults /\ rejected'[r] /\ frames'[r] = <<>>
                /\ remainingCredits' = remainingCredits
                /\ generations' = generations /\ versions' = versions /\ nextGenId' = nextGenId
       /\ \A c \in Creates :
            (cpc[c] = "findUser" /\ cpc'[c] # "findUser" /\ (~userExists \/ remainingCredits <= 0)) =>
                /\ cpc'[c] = "failed" /\ cgen'[c] = 0 /\ tx'[c] = {}
                /\ remainingCredits' = remainingCredits
                /\ generations' = generations /\ versions' = versions /\ nextGenId' = nextGenId
      ]_vars

\* C12 witness: the user exists with balance 0; a createStream request and a
\* create call were both rejected by the pre-check, the request with one
\* error frame, and the store is as it was.
C12_BothRejected ==
    \E r \in Reqs, c \in Creates :
        /\ userExists /\ initialCredits = 0
        /\ pc[r] = "done" /\ ~storageFailed[r] /\ frames[r] = <<ErrorFrame>> /\ ends[r] = 1
        /\ cpc[c] = "failed"
        /\ remainingCredits = 0 /\ generations = {} /\ versions = {}

\* C13: a createStream request that runs alone for a user with balance
\* B >= 1, whose provider call does not fail, whose storage calls all succeed
\* and whose channel writes do not throw, ends with exactly one completed
\* frame and no error frame, a stored Version 1 and the balance B - 1.
C13_OneCreditPerCompletedGeneration ==
    \A r \in Reqs :
        (/\ pc[r] = "done" /\ userExists /\ initialCredits >= 1
         /\ ~provFailed[r] /\ ~storageFailed[r] /\ ~writeFaults) =>
            /\ NumStatus(frames[r], "completed") = 1
            /\ NumStatus(frames[r], "error") = 0
            /\ VersionExists(gen[r], 1) /\ FinalVersion(r) \in versions
            /\ charged[r]
            /\ remainingCredits = initialCredits - 1

\* C13 witness: the request streamed two fragments to a connected client
\* over a channel that does not throw, no call failed, and it is over.
C13_CompletedAlone ==
    \E r \in Reqs :
        /\ pc[r] = "done" /\ initialCredits = MaxCredits /\ closed[r] = "open"
        /\ ~provFailed[r] /\ ~storageFailed[r] /\ ~writeFaults
        /\ NumStatus(frames[r], "streaming") = MaxChunks
        /\ frames[r][Len(frames[r])] = CompletedFrame
        /\ remainingCredits = MaxCredits - 1

\* C14: within one request the chunk payloads of the streaming frames, in
\* the order written, are fragments of the provider in emission order, each
\* forwarded at most once and as a frame of its own: the payload sequence is
\* a subsequence of the emitted fragments and a prefix of the fragments
\* appended to the accumulator.
C14_ChunkOrder ==
    \A r \in Reqs :
        /\ IsSubsequence(Chunks(frames[r]), emitted[r])
        /\ IsPrefix(Chunks(frames[r]), processedSvgContent[r])
        /\ IsSubsequence(processedSvgContent[r], emitted[r])

\* C14 witness: the provider emitted two different fragments, the last
\* one into a full buffer, and both were forwarded.
C14_TwoChunksForwarded ==
    \E r \in Reqs :
        /\ emitted[r] = <<CloseTag, OpenTag>>
        /\ Chunks(frames[r]) = <<CloseTag, OpenTag>>
        /\ pc[r] = "awaitDrain"

\* C15: every non-empty fragment of the provider is appended to the
\* accumulator and forwarded as one streaming frame, only empty fragments
\* are skipped: when the provider stream has ended (client connected, the
\* completed frame written) the accumulator and the forwarded chunks are
\* the emitted fragments without the empty ones.
C15_OnlyEmptyFragmentsSkipped ==
    \A r \in Reqs :
        (NumStatus(frames[r], "completed") = 1 /\ ~provFailed[r] /\ closed[r] = "open") =>
            /\ processedSvgContent[r] = SelectSeq(emitted[r], LAMBDA f : f # "")
            /\ Chunks(frames[r]) = SelectSeq(emitted[r], LAMBDA f : f # "")

\* C16: once the close/error handler of the response has set hasEnded (the
\* client disconnected or the channel reported an error), the request writes
\* no further streaming, completed or error frame to the channel.
C16_NoWriteAfterTransportError ==
    [][\A r \in Reqs :
           (hasEnded[r] /\ closed[r] \in {"early", "late"}) =>
               \A st \in {"streaming", "completed", "error"} :
                   NumStatus(frames'[r], st) = NumStatus(frames[r], st)]_vars

\* C17: createStream never rejects to its caller, whatever fails.
C17_NeverRejects == \A r \in Reqs : ~rejected[r]

\* The history stored in the Version row.
StoredHistory == existingVersion.svgModifyList

Min(a, b) == IF a <= b THEN a ELSE b

\* C18: after any sequence of updateSvgVersion calls on one Version, from
\* the history written at creation (empty or one entry), the stored
\* svgModifyList has at most 10 entries, and once 11 or more sequential
\* edits are stored it has exactly 10.
C18_HistoryBound ==
    /\ Len(StoredHistory) <= HistoryLimit
    /\ \A e \in Editors : Len(modifyList[e]) <= HistoryLimit
    /\ clock - 1 >= HistoryLimit + 1 => Len(StoredHistory) = HistoryLimit

\* C18 witness: eleven edits are stored for a Version that create inserted
\* with an empty history, and the history has ten entries.
C18_ElevenEdits ==
    /\ clock - 1 = HistoryLimit + 1
    /\ Len(allEdits) = HistoryLimit + 1
    /\ Len(StoredHistory) = HistoryLimit
    /\ \A e \in Editors : epc[e] = "idle"

C20_SanitizerWellFormed ==
    cleanPc = "returned" =>
        /\ cleaned # <<>>
        /\ Cardinality(Opens(cleaned)) = 1
        /\ Cardinality(Closes(cleaned)) = 1
        /\ \E k \in 1..Len(cleaned) : HasXmlns(cleaned[k])

\* The components of the aspectRatio string.
RatioParts == Split(aspectRatio)

\* The string is W:H with W and H positive decimal numbers.
ValidRatio ==
    /\ Len(RatioParts) = 2
    /\ \A k \in 1..2 : IsDigits(RatioParts[k]) /\ DigitsValue(RatioParts[k]) > 0

\* C21: for every aspectRatio W:H with positive numeric W and H, the height
\* is the integer nearest to 800 * H / W, a half rounded up.
C21_ValidRatioHeight ==
    (heightPc = "resolved" /\ ValidRatio) =>
        LET W == DigitsValue(RatioParts[1])
            H == DigitsValue(RatioParts[2])
        IN  /\ ~height.nan
            /\ 2 * W * height.val - W <= 2 * SVG_WIDTH * H
            /\ 2 * SVG_WIDTH * H < 2 * W * height.val + W

\* C21 witness: the height resolved for 16:9 is 450.
C21_SixteenByNine ==
    /\ heightPc = "resolved"
    /\ aspectRatio = <<"1", "6", ":", "9">>
    /\ height = Num(450)

\* C22: for every aspectRatio that is missing, has no colon, or has a
\* component that is zero, negative, empty or not numeric, the resolved height
\* is the fixed width 800.
C22_InvalidRatioSquare ==
    (heightPc = "resolved" /\ ~ValidRatio /\ Len(RatioParts) <= 2) => height = Num(SVG_WIDTH)

\* C23: when svgVersion.create of the final Version fails, the request does
\* not decrement the balance, writes an error frame if the channel is still
\* open, ends the channel, and createStream returns without rejecting.
C23_StorageFailureAtFinalization ==
    [][\A r \in Reqs :
         (pc[r] = "createVersion" /\ pc'[r] = "done") =>
             /\ remainingCredits' = remainingCredits
             /\ ~charged'[r]
             /\ ~hasEnded[r] => /\ frames'[r] = Append(frames[r], ErrorFrame)
                                /\ ends'[r] = 1
             /\ hasEnded'[r]
             /\ ~rejected'[r]]_vars

\* C24: after a streaming write that returned false, and until the channel
\* signals drain, the request reads no further provider fragment and nothing
\* more is written to the channel for it; no fragment is dropped.
C24_NothingWrittenUntilDrain ==
    [][\A r \in Reqs :
         (pc[r] = "awaitDrain" /\ pc'[r] = "awaitDrain") =>
             /\ emitted'[r] = emitted[r]
             /\ processedSvgContent'[r] = processedSvgContent[r]
             /\ frames'[r] = frames[r]
             /\ beats'[r] = beats[r]]_vars

\* C25: a completed frame is never written before Version 1 with the final
\* content has been persisted, and the credit is decremented after both.
C25_PersistBeforeCompleted ==
    \A r \in Reqs :
        /\ NumStatus(frames[r], "completed") >= 1 => VersionExists(gen[r], 1)
        /\ charged[r] => (NumStatus(frames[r], "completed") >= 1 /\ VersionExists(gen[r], 1))

\* C26: once svgVersion.create of a request has succeeded, Version 1 of its
\* generation holds as svgContent the sanitized accumulated text, which is the
\* sanitized concatenation of the chunks sent to the client, and a history of
\* exactly one entry with the raw accumulated text, edited by the user.
C26_FinalVersionContent ==
    \A r \in Reqs : \A v \in versions :
        (gen[r] # 0 /\ v.generationId = gen[r]) =>
            /\ v.versionNumber = 1
            /\ v.svgContent = CleanSvgContent(Chunks(frames[r]))
            /\ Len(v.svgModifyList) = 1
            /\ v.svgModifyList[1].content = Chunks(frames[r])
            /\ v.svgModifyList[1].content = processedSvgContent[r]
            /\ v.svgModifyList[1].editedBy = "user"

\* C26 witness: a request streamed an opening root tag only and was charged;
\* the stored content is the repaired document, the history holds the raw text.
C26_RawKeptCleanStored ==
    \E r \in Reqs : \E v \in versions :
        /\ charged[r]
        /\ v.generationId = gen[r]
        /\ processedSvgContent[r] = <<OpenTag>>
        /\ v.svgContent = <<OpenTag, CloseTag>>
        /\ v.svgModifyList[1].content = <<OpenTag>>

\* The argument holds exactly one <svg and exactly one </svg>, the tag of the
\* former complete and the latter after it.
WellFormedInput ==
    /\ Cardinality(Opens(svgContent)) = 1
    /\ Cardinality(Closes(svgContent)) = 1
    /\ LET i == First(Opens(svgContent))
       IN  /\ TagEnd(svgContent, i) # 0
           /\ First(Closes(svgContent)) > TagEnd(svgContent, i)

Stripped == Trim(StripFences(svgContent, FALSE))

\* C28: when the argument without its fence markers holds a complete opening
\* root tag and no </svg>, the result is the text from the first <svg to the
\* end followed by </svg>, and no fence marker is in it.
C28_TruncatedRepaired ==
    (/\ cleanPc = "returned"
     /\ Opens(Stripped) # {}
     /\ TagEnd(Stripped, First(Opens(Stripped))) # 0
     /\ Closes(Stripped) = {}) =>
        /\ cleaned = SubSeq(Stripped, First(Opens(Stripped)), Len(Stripped)) \o <<CloseTag>>
        /\ \A k \in 1..Len(cleaned) : cleaned[k] # Fence
        /\ \A k \in 1..Len(svgContent) :
              (k >= First(Opens(svgContent)) /\ svgContent[k] \notin {Fence, Blank})
                  => \E n \in 1..Len(cleaned) : cleaned[n] = svgContent[k]

\* C28 witness: a fenced, truncated document loses the fences and the text
\* before the tag and gains </svg>.
C28_FencedTruncated ==
    /\ cleanPc = "returned"
    /\ svgContent = <<Fence, Garbage, OpenTag, LeafElement>>
    /\ cleaned = <<OpenTag, LeafElement, CloseTag>>

\* The fence-stripped argument has a leaf graphic element.
HasLeaf == \E k \in 1..Len(Stripped) : IsLeaf(Stripped[k])

\* The fence-stripped argument has no <svg and no </svg>.
NoRootTag == Opens(Stripped) = {} /\ Closes(Stripped) = {}

\* The fence-stripped argument has a complete opening root tag and no </svg>.
Truncated ==
    /\ Opens(Stripped) # {}
    /\ TagEnd(Stripped, First(Opens(Stripped))) # 0
    /\ Closes(Stripped) = {}

\* The fence-stripped argument has a complete opening root tag.
HasRootTag == \E i \in Opens(Stripped) : TagEnd(Stripped, i) # 0

C30_StoredModelIsInvokedModel ==
    \A r \in Reqs :
        currentModel[r] # "" =>
            /\ currentModel[r] = CurrentModel(isThinking[r])
            /\ modelNames[r] = <<currentModel[r]>>

C32_PromptDimensionsAreStoredOnes ==
    heightPc = "prepared" =>
        IF type = "custom"
        THEN prompts.fullPrompt = EmptyPrompt /\ prompts.systemPrompt = EmptyPrompt
        ELSE /\ prompts.systemPrompt.viewBoxes # <<>>
             /\ \A k \in 1..Len(prompts.systemPrompt.viewBoxes) :
                   LET viewBox == prompts.systemPrompt.viewBoxes[k]
                   IN  /\ configuration.width.kind = "number"
                       /\ configuration.height.kind = "number"
                       /\ viewBox.width = DigitsOf(configuration.width.val)
                       /\ viewBox.height = DigitsOf(configuration.height.val)

\* The generations a listing's filter matches, in the store as it is.
MatchingGenerations(listing) ==
    {g \in GenIds : Where(listing, svgGenerations[g])}

\* The page a listing returned is the page asked for: as many items as the
\* matching generations leave after the skipped ones, pageSize at most; the
\* k-th item has at most skip + k - 1 matching generations created after it
\* and at least skip + k created no earlier; no generation comes twice; each
\* item carries the Version of its generation with the highest versionNumber
\* and no other.
IsPageOf(page, matching, skip, take) ==
    /\ Len(page) = (IF Cardinality(matching) - skip < take
                    THEN (IF Cardinality(matching) > skip THEN Cardinality(matching) - skip ELSE 0)
                    ELSE take)
    /\ \A k \in 1..Len(page) :
          LET g == page[k].id
              createdAfter == {h \in matching :
                                  svgGenerations[h].createdAt > svgGenerations[g].createdAt}
              createdNoEarlier == {h \in matching :
                                      svgGenerations[h].createdAt >= svgGenerations[g].createdAt}
              ofG == {v \in svgVersions : v.generationId = g}
          IN  /\ g \in matching
              /\ Cardinality(createdAfter) <= skip + k - 1
              /\ Cardinality(createdNoEarlier) >= skip + k
              /\ \A j \in 1..(k - 1) : page[j].id # g
              /\ IF ofG = {} THEN page[k].latestVersion = <<>>
                 ELSE /\ Len(page[k].latestVersion) = 1
                      /\ page[k].latestVersion[1] \in ofG
                      /\ \A v \in ofG : v.versionNumber <= page[k].latestVersion[1].versionNumber

C34_Frame ==
    /\ svgVersions' = svgVersions
    /\ versions' = versions
    /\ remainingCredits' = remainingCredits
    /\ DOMAIN svgGenerations' = DOMAIN svgGenerations
    /\ generations \subseteq generations'

\* A call for an id that is not in the store ends with NotFoundException (or
\* with the error of a failed lookup) and the store is as it was.
C34_UnknownId ==
    (outcome' # outcome /\ outcome'.id \notin DOMAIN svgGenerations) =>
        /\ outcome'.result \in {"NotFoundException", "error"}
        /\ svgGenerations' = svgGenerations

\* C34 as stated: updatePublicStatus changes only the isPublic flag of the
\* addressed Generation and leaves every other field, the other Generations,
\* the Versions and the credit balances as they were; no Generation is ever
\* deleted; an unknown id fails with NotFound and changes nothing.
C34_OnlyIsPublicChanges ==
    [][/\ C34_Frame
       /\ C34_UnknownId
       /\ svgGenerations' # svgGenerations =>
              /\ upc = "update"
              /\ svgGenerations' = [svgGenerations EXCEPT ![target.id].isPublic = target.isPublic]]_vars

\* C34 (amended): updatePublicStatus changes the isPublic flag of the
\* addressed Generation and its updatedAt timestamp, and nothing else: every
\* other field of the row, the other Generations, the Versions and the credit
\* balances are as they were; no Generation is ever deleted; an unknown id
\* fails with NotFound and changes nothing.
C34_OnlyVisibilityAndUpdatedAt ==
    [][/\ C34_Frame
       /\ C34_UnknownId
       /\ svgGenerations' # svgGenerations =>
              /\ upc = "update"
              /\ svgGenerations'[target.id].isPublic = target.isPublic
              /\ \A g \in DOMAIN svgGenerations :
                    \A field \in DOMAIN svgGenerations[g] :
                        (g # target.id \/ field \notin {"isPublic", "updatedAt"}) =>
                            svgGenerations'[g][field] = svgGenerations[g][field]]_vars

\* Generation 2 was made public and its updatedAt moved; a later call for an
\* unknown id ended with NotFoundException.
C34_PublishedThenUnknownId ==
    /\ svgGenerations[2].isPublic
    /\ svgGenerations[2].updatedAt > 0
    /\ outcome = [id |-> NumGens + 1, result |-> "NotFoundException"]

\* C35: cleaning is idempotent: for every argument, cleanSvgContent applied to
\* what cleanSvgContent returned returns it again, so that content stored once
\* and saved again through updateSvgVersion does not change.
C35_CleanIsIdempotent ==
    cleanPc = "returned" => CleanSvgContent(cleaned) = cleaned

\* C36: no edit is lost when updateSvgVersion calls on the same Version
\* overlap: once the calls have completed, and as long as the history has not
\* reached its limit, the stored history holds the record of every edit that
\* was stored.
C36_NoLostEdit ==
    ((\A e \in Editors : epc[e] = "idle") /\ Len(allEdits) <= HistoryLimit) =>
        \A k \in 1..Len(allEdits) :
            \E j \in 1..Len(existingVersion.svgModifyList) :
                existingVersion.svgModifyList[j] = allEdits[k]

C38_HeartbeatDiscipline ==
    /\ [][\A r \in Reqs : beats'[r] > beats[r] => (ends[r] = 0 /\ closed[r] = "open")]_vars
    /\ \A r \in Reqs : (pc[r] = "done") ~> ~keepAlive[r]

\* C39: for every aspectRatio the request validation accepts, the height
\* stored in the Generation configuration and written into the placeholder
\* viewBox is an integer >= 1.
C39_PositiveCanvasHeight ==
    heightPc = "prepared" =>
        /\ ~height.nan
        /\ height.val >= 1
        /\ configuration.height.kind = "number"
        /\ configuration.height.val >= 1
        /\ svgPlaceholder.height = DigitsOf(configuration.height.val)

====
